---- MODULE Spec2Model ----
(***************************************************************************)
(* Booking / waitlist / credit workflow of the fitness backend             *)
(* (routes/booking.py, routes/trainer.py, models/class.py,                 *)
(* models/membership.py).  Every HTTP handler is a function from the       *)
(* store and the clock to a new store and a response; the actions apply    *)
(* these functions to the tables.                                          *)
(***************************************************************************)
EXTENDS Integers, Sequences, FiniteSets, TLC

\* ---------------------------------------------------------------- bounds
\* last instant of the clock (datetime.utcnow() is read as 0..MaxTime)
MaxTime == 2
\* number of requests the clients send
MaxRequests == 4

\* ------------------------------------------------------------- null values
\* Python None / SQL NULL in an integer or datetime column
NULL == 0 - 1000
\* Python None / SQL NULL in a string column
NullStr == "None"

\* ------------------------------------------------------------------ actors
\* (user_id, role) as decoded from the JWT by token_required / role_required
Member(u) == [id |-> u, role |-> "member"]
Actors ==
  { Member("u1"), Member("u2"), Member("u3"),
    [id |-> "t1", role |-> "trainer"], [id |-> "a1", role |-> "admin"] }

\* class ids a request can name: the two rows of classes and an unknown id
ClassIdInputs == {"c1", "c2", "c9"}

VARIABLES
  now,          \* datetime.utcnow()
  classes,      \* table classes (with class_type.credits_required joined in)
  bookings,     \* table bookings, row i has primary key i
  waitlist,     \* table waitlist_entries, row i has primary key i
  memberships,  \* table memberships, row i has primary key i
  resp,         \* the last request and its HTTP response
  served,       \* number of requests served so far
  inflight      \* create_booking requests between their reads and their commit

vars == <<now, classes, bookings, waitlist, memberships, resp, served, inflight>>

\* the persistent store as one value
Store ==
  [classes |-> classes, bookings |-> bookings,
   waitlist |-> waitlist, memberships |-> memberships]

\* -------------------------------------------------------------- row shapes
Min(S) == CHOOSE x \in S : \A y \in S : x <= y
Max(S) == CHOOSE x \in S : \A y \in S : x >= y

NewClass(trainer, start, end, cap, credits) ==
  [trainer_id |-> trainer, start_time |-> start, end_time |-> end,
   capacity |-> cap, is_cancelled |-> FALSE, cancellation_reason |-> NullStr,
   credits_required |-> credits]

NewMembership(u, end, credits) ==
  [user_id |-> u, status |-> "active", end_date |-> end,
   remaining_credits |-> credits]

NewBooking(u, c, credits) ==
  [user_id |-> u, class_id |-> c, status |-> "booked", credits_used |-> credits,
   cancellation_time |-> NULL, cancellation_reason |-> NullStr]

\* variant: the position is the ordinal of the insert, not the number the
\* request computed from its reads
NewWaitlistEntry_position_at_insert(u, c, pos, jt) ==
  [user_id |-> u, class_id |-> c, position |-> jt, join_time |-> jt,
   status |-> "waiting", notification_time |-> NULL]

\* join_time is datetime.utcnow() at the INSERT.  Rows are inserted one after
\* the other and never deleted, so the ordinal of the insert orders the
\* timestamps exactly as the microsecond clock does.
NewWaitlistEntry(u, c, pos, jt) ==
  [user_id |-> u, class_id |-> c, position |-> pos, join_time |-> jt,
   status |-> "waiting", notification_time |-> NULL]

\* ----------------------------------------------------------------- queries
ActiveStatuses == {"booked", "attended"}

\* variant: the count forgets the attended bookings
booking_count_booked_only(bk, c) ==
  Cardinality({ i \in DOMAIN bk : bk[i].class_id = c /\ bk[i].status = "booked" })

\* Booking.query.filter(class_id == c, status.in_(['booked','attended'])).count()
booking_count(bk, c) ==
  Cardinality({ i \in DOMAIN bk : bk[i].class_id = c /\ bk[i].status \in ActiveStatuses })

\* Booking.query.filter(class_id, user_id, status in booked/attended).first()
existing_booking(bk, u, c) ==
  { i \in DOMAIN bk : bk[i].class_id = c /\ bk[i].user_id = u
                      /\ bk[i].status \in ActiveStatuses }

\* variant: an expired membership still counts as the current one
active_membership_expiry_ignored(ms, u, t) ==
  LET M == { m \in DOMAIN ms : ms[m].user_id = u /\ ms[m].status = "active" }
  IN IF M = {} THEN 0 ELSE Min(M)

\* Membership.query.filter(user_id, status == 'active', end_date >= utcnow()).first()
\* 0 stands for "no row"; the first row is the one with the smallest key.
active_membership(ms, u, t) ==
  LET M == { m \in DOMAIN ms : ms[m].user_id = u /\ ms[m].status = "active"
                               /\ ms[m].end_date >= t }
  IN IF M = {} THEN 0 ELSE Min(M)

\* variant: the removed entries are still taken for waiting ones
waiting_entries_or_removed(wl, c) ==
  { i \in DOMAIN wl : wl[i].class_id = c /\ wl[i].status \in {"waiting", "removed"} }

\* WaitlistEntry.query.filter(class_id, status == 'waiting')
waiting_entries(wl, c) ==
  { i \in DOMAIN wl : wl[i].class_id = c /\ wl[i].status = "waiting" }

\* WaitlistEntry.query.filter(class_id, user_id, status == 'waiting').first()
existing_waitlist(wl, u, c) ==
  { i \in waiting_entries(wl, c) : wl[i].user_id = u }

\* db.func.max(WaitlistEntry.position) over the waiting entries, or 0
max_position(wl, c) ==
  LET W == waiting_entries(wl, c)
  IN IF W = {} THEN 0 ELSE Max({ wl[i].position : i \in W })

\* variant: the start time is not looked at
class_started_ignored(class_obj, t) == FALSE

\* class_obj.start_time < datetime.utcnow()
class_started(class_obj, t) == class_obj.start_time < t

\* variant: the end time is not looked at
class_ended_ignored(class_obj, t) == FALSE

\* class_obj.end_time < datetime.utcnow()
class_ended(class_obj, t) == class_obj.end_time < t

\* variant: only an empty balance is refused, whatever the class costs
insufficient_credits_zero_only(remaining_credits, credits_required) ==
  remaining_credits # NULL /\ remaining_credits <= 0

\* remaining_credits is not None and remaining_credits < credits_required
insufficient_credits(remaining_credits, credits_required) ==
  remaining_credits # NULL /\ remaining_credits < credits_required

\* booking_count >= class_obj.capacity
class_full(count, capacity) == count >= capacity

\* variant: any authenticated user may act on the row
owner_or_staff_unchecked(owner_id, actor) == TRUE

\* not (row.user_id != user_id and user_role not in ['admin', 'trainer'])
owner_or_staff(owner_id, actor) ==
  owner_id = actor.id \/ actor.role \in {"admin", "trainer"}

\* variant: the status of the booking is not looked at
cancellable_always(booking) == TRUE

\* booking.status == 'booked': the booking can still be cancelled
cancellable(booking) == booking.status = "booked"

\* variant: the bookings table has no unique constraint
unique_user_class_booking_absent(bk, u, c) == TRUE

\* UniqueConstraint('user_id', 'class_id') on bookings
unique_user_class_booking(bk, u, c) ==
  \A i \in DOMAIN bk : ~(bk[i].user_id = u /\ bk[i].class_id = c)

\* UniqueConstraint('user_id', 'class_id') on waitlist_entries
unique_user_class_waitlist(wl, u, c) ==
  \A i \in DOMAIN wl : ~(wl[i].user_id = u /\ wl[i].class_id = c)

\* ---------------------------------------------------------------- responses
Reply(S, code, msg, val) == [store |-> S, code |-> code, msg |-> msg, val |-> val]

\* what create_booking holds when it reaches db.session.add / commit
Plan(kind, code, msg, u, c, credits, m, remaining, pos) ==
  [kind |-> kind, code |-> code, msg |-> msg, user_id |-> u, class_id |-> c,
   credits_used |-> credits, membership |-> m, remaining |-> remaining,
   position |-> pos]

Refuse(code, msg, u, c) == Plan("reply", code, msg, u, c, NULL, 0, NULL, NULL)

\* ------------------------------------------------------------ create_booking
\* The reads of create_booking: every check up to the construction of the
\* Booking or WaitlistEntry object.
create_booking_read(S, t, user_id, class_id) ==
  IF class_id \notin DOMAIN S.classes
  THEN Refuse(404, "Class not found", user_id, class_id)
  ELSE
  LET class_obj == S.classes[class_id]
      m == active_membership(S.memberships, user_id, t)
      credits_required == class_obj.credits_required
  IN
  IF class_started(class_obj, t)
  THEN Refuse(400, "Cannot book a class that has already started", user_id, class_id)
  ELSE IF class_obj.is_cancelled
  THEN Refuse(400, "Cannot book a cancelled class", user_id, class_id)
  ELSE IF existing_booking(S.bookings, user_id, class_id) # {}
  THEN Refuse(409, "You already have a booking for this class", user_id, class_id)
  ELSE IF m = 0
  THEN Refuse(403, "You do not have an active membership", user_id, class_id)
  ELSE IF insufficient_credits(S.memberships[m].remaining_credits, credits_required)
  THEN Refuse(403, "You do not have enough credits", user_id, class_id)
  ELSE IF class_full(booking_count(S.bookings, class_id), class_obj.capacity)
  THEN IF existing_waitlist(S.waitlist, user_id, class_id) # {}
       THEN Refuse(409, "You are already on the waitlist for this class", user_id, class_id)
       ELSE Plan("waitlist", 201, "Added to waitlist", user_id, class_id, NULL, 0, NULL,
                 max_position(S.waitlist, class_id) + 1)
  ELSE Plan("booking", 201, "Booking created successfully", user_id, class_id,
            credits_required, m,
            IF S.memberships[m].remaining_credits # NULL
            THEN S.memberships[m].remaining_credits - credits_required
            ELSE NULL,
            NULL)

\* variant: the commit counts the bookings again under a lock on the class and
\* refuses the booking if the class has filled up since the reads
create_booking_commit_capacity_rechecked(S, t, p, fault) ==
  CASE p.kind = "reply" -> Reply(S, p.code, p.msg, NULL)
    [] p.kind = "waitlist" ->
        IF fault THEN Reply(S, 500, "OperationalError", NULL)
        ELSE IF ~unique_user_class_waitlist(S.waitlist, p.user_id, p.class_id)
        THEN Reply(S, 500, "IntegrityError", NULL)
        ELSE Reply([S EXCEPT !.waitlist =
                      Append(@, NewWaitlistEntry(p.user_id, p.class_id, p.position,
                                                 Len(@) + 1))],
                   201, p.msg, p.position)
    [] p.kind = "booking" ->
        IF fault THEN Reply(S, 500, "OperationalError", NULL)
        ELSE IF class_full(booking_count(S.bookings, p.class_id),
                           S.classes[p.class_id].capacity)
        THEN Reply(S, 409, "Class is full", NULL)
        ELSE IF ~unique_user_class_booking(S.bookings, p.user_id, p.class_id)
        THEN Reply(S, 500, "IntegrityError", NULL)
        ELSE Reply([S EXCEPT
                      !.bookings = Append(@, NewBooking(p.user_id, p.class_id, p.credits_used)),
                      !.memberships =
                         IF p.remaining # NULL
                         THEN [@ EXCEPT ![p.membership].remaining_credits = p.remaining]
                         ELSE @],
                   201, p.msg, Len(S.bookings) + 1)

\* variant: the debit is an UPDATE ... SET remaining_credits =
\* remaining_credits - n evaluated by the store at the commit
create_booking_commit_relative_debit(S, t, p, fault) ==
  CASE p.kind = "reply" -> Reply(S, p.code, p.msg, NULL)
    [] p.kind = "waitlist" ->
        IF fault THEN Reply(S, 500, "OperationalError", NULL)
        ELSE IF ~unique_user_class_waitlist(S.waitlist, p.user_id, p.class_id)
        THEN Reply(S, 500, "IntegrityError", NULL)
        ELSE Reply([S EXCEPT !.waitlist =
                      Append(@, NewWaitlistEntry(p.user_id, p.class_id, p.position,
                                                 Len(@) + 1))],
                   201, p.msg, p.position)
    [] p.kind = "booking" ->
        IF fault THEN Reply(S, 500, "OperationalError", NULL)
        ELSE IF ~unique_user_class_booking(S.bookings, p.user_id, p.class_id)
        THEN Reply(S, 500, "IntegrityError", NULL)
        ELSE Reply([S EXCEPT
                      !.bookings = Append(@, NewBooking(p.user_id, p.class_id, p.credits_used)),
                      !.memberships =
                         IF p.remaining # NULL
                         THEN [@ EXCEPT ![p.membership].remaining_credits =
                                           @ - p.credits_used]
                         ELSE @],
                   201, p.msg, Len(S.bookings) + 1)

\* variant: the booking row is committed on its own before the debit, so a
\* failing commit leaves the booking without the debit
create_booking_commit_per_statement(S, t, p, fault) ==
  CASE p.kind = "reply" -> Reply(S, p.code, p.msg, NULL)
    [] p.kind = "waitlist" ->
        IF fault \/ ~unique_user_class_waitlist(S.waitlist, p.user_id, p.class_id)
        THEN Reply(S, 500, "OperationalError", NULL)
        ELSE Reply([S EXCEPT !.waitlist =
                      Append(@, NewWaitlistEntry(p.user_id, p.class_id, p.position,
                                                 Len(@) + 1))],
                   201, p.msg, p.position)
    [] p.kind = "booking" ->
        IF ~unique_user_class_booking(S.bookings, p.user_id, p.class_id)
        THEN Reply(S, 500, "IntegrityError", NULL)
        ELSE LET S1 == [S EXCEPT !.bookings =
                          Append(@, NewBooking(p.user_id, p.class_id, p.credits_used))]
             IN IF fault THEN Reply(S1, 500, "OperationalError", NULL)
                ELSE Reply([S1 EXCEPT !.memberships =
                              IF p.remaining # NULL
                              THEN [@ EXCEPT ![p.membership].remaining_credits = p.remaining]
                              ELSE @],
                           201, p.msg, Len(S.bookings) + 1)

\* db.session.add(...) ; db.session.commit() of create_booking, with the
\* except branch (rollback, 500).  fault: the commit raises for a reason of
\* the store's own.
create_booking_commit(S, t, p, fault) ==
  CASE p.kind = "reply" -> Reply(S, p.code, p.msg, NULL)
    [] p.kind = "waitlist" ->
        IF fault THEN Reply(S, 500, "OperationalError", NULL)
        ELSE IF ~unique_user_class_waitlist(S.waitlist, p.user_id, p.class_id)
        THEN Reply(S, 500, "IntegrityError", NULL)
        ELSE Reply([S EXCEPT !.waitlist =
                      Append(@, NewWaitlistEntry(p.user_id, p.class_id, p.position,
                                                 Len(@) + 1))],
                   201, p.msg, p.position)
    [] p.kind = "booking" ->
        IF fault THEN Reply(S, 500, "OperationalError", NULL)
        ELSE IF ~unique_user_class_booking(S.bookings, p.user_id, p.class_id)
        THEN Reply(S, 500, "IntegrityError", NULL)
        ELSE Reply([S EXCEPT
                      !.bookings = Append(@, NewBooking(p.user_id, p.class_id, p.credits_used)),
                      !.memberships =
                         IF p.remaining # NULL
                         THEN [@ EXCEPT ![p.membership].remaining_credits = p.remaining]
                         ELSE @],
                   201, p.msg, Len(S.bookings) + 1)

\* POST /bookings served without another request in between
create_booking(S, t, user_id, class_id, fault) ==
  create_booking_commit(S, t, create_booking_read(S, t, user_id, class_id), fault)

\* ---------------------------------------------------------- reorder_waitlist
\* variant: the positions are left as they are
reorder_waitlist_skipped(wl, class_id) == wl

\* variant: the entries are listed in the order of their stored positions
reorder_waitlist_by_position(wl, class_id) ==
  LET W == waiting_entries(wl, class_id)
      before(j, i) == \/ wl[j].position < wl[i].position
                      \/ wl[j].position = wl[i].position /\ j <= i
  IN [i \in DOMAIN wl |->
        IF i \in W
        THEN [wl[i] EXCEPT !.position = Cardinality({ j \in W : before(j, i) })]
        ELSE wl[i]]

\* entries = waiting entries of the class ORDER BY join_time; entry i gets
\* position i + 1.  Equal join times are listed in key order.
reorder_waitlist(wl, class_id) ==
  LET W == waiting_entries(wl, class_id)
      before(j, i) == \/ wl[j].join_time < wl[i].join_time
                      \/ wl[j].join_time = wl[i].join_time /\ j <= i
  IN [i \in DOMAIN wl |->
        IF i \in W
        THEN [wl[i] EXCEPT !.position = Cardinality({ j \in W : before(j, i) })]
        ELSE wl[i]]

\* ---------------------------------------------------------- process_waitlist
\* variant: the entry at the end of the queue is taken
next_entry_newest(wl, class_id) ==
  LET W == waiting_entries(wl, class_id)
  IN { i \in W : \A j \in W : wl[i].position >= wl[j].position }

\* The rows ORDER BY position .first() can return: the waiting entries of the
\* class with the smallest position (one row unless positions are duplicated).
next_entry(wl, class_id) ==
  LET W == waiting_entries(wl, class_id)
  IN { i \in W : \A j \in W : wl[i].position <= wl[j].position }

\* process_waitlist(class_id) run on the committed store S.  The result is the
\* set of its outcomes, each the committed store it leaves and whether it
\* raised.  fault = 2: its own commit raises; fault = 3: the commit of
\* reorder_waitlist raises.
process_waitlist(S, t, class_id, fault) ==
  IF class_id \notin DOMAIN S.classes
  THEN { [store |-> S, raised |-> FALSE] }
  ELSE IF class_full(booking_count(S.bookings, class_id), S.classes[class_id].capacity)
  THEN { [store |-> S, raised |-> FALSE] }
  ELSE IF next_entry(S.waitlist, class_id) = {}
  THEN { [store |-> S, raised |-> FALSE] }
  ELSE
  { IF fault = 2 THEN [store |-> S, raised |-> TRUE]
    ELSE LET S1 == [S EXCEPT !.waitlist[e].status = "notified",
                             !.waitlist[e].notification_time = t]
         IN IF fault = 3 THEN [store |-> S1, raised |-> TRUE]
            ELSE [store |-> [S1 EXCEPT !.waitlist = reorder_waitlist(@, class_id)],
                  raised |-> FALSE]
    : e \in next_entry(S.waitlist, class_id) }

\* ------------------------------------------------------------ cancel_booking
\* variant: the refund is applied twice
refund_credits_twice(ms, t, booking) ==
  LET m == active_membership(ms, booking.user_id, t)
  IN IF booking.credits_used > 0 /\ m # 0 /\ ms[m].remaining_credits # NULL
     THEN [ms EXCEPT ![m].remaining_credits = @ + 2 * booking.credits_used]
     ELSE ms

\* variant: the refund is forgotten
refund_credits_dropped(ms, t, booking) == ms

\* the refund of one booking to the owner's current active membership
refund_credits(ms, t, booking) ==
  LET m == active_membership(ms, booking.user_id, t)
  IN IF booking.credits_used > 0 /\ m # 0 /\ ms[m].remaining_credits # NULL
     THEN [ms EXCEPT ![m].remaining_credits = @ + booking.credits_used]
     ELSE ms

\* POST /bookings/<booking_id>/cancel; the set of its outcomes.
\* fault = 1: the commit of the cancellation raises; 2, 3: see process_waitlist.
cancel_booking(S, t, booking_id, actor, reason, fault) ==
  IF booking_id \notin DOMAIN S.bookings
  THEN { Reply(S, 404, "Booking not found", NULL) }
  ELSE
  LET booking == S.bookings[booking_id] IN
  IF ~owner_or_staff(booking.user_id, actor)
  THEN { Reply(S, 403, "Unauthorized", NULL) }
  ELSE IF ~cancellable(booking)
  THEN { Reply(S, 400, "Booking cannot be cancelled", NULL) }
  ELSE IF booking.class_id \notin DOMAIN S.classes
  THEN { Reply(S, 404, "Class not found", NULL) }
  ELSE IF class_started(S.classes[booking.class_id], t)
  THEN { Reply(S, 400, "Cannot cancel a booking for a class that has already started", NULL) }
  ELSE IF fault = 1
  THEN { Reply(S, 500, "OperationalError", NULL) }
  ELSE
  LET S1 == [S EXCEPT !.bookings[booking_id].status = "cancelled",
                      !.bookings[booking_id].cancellation_time = t,
                      !.bookings[booking_id].cancellation_reason = reason,
                      !.memberships = refund_credits(@, t, booking)]
  IN { IF w.raised THEN Reply(w.store, 500, "OperationalError", NULL)
       ELSE Reply(w.store, 200, "Booking cancelled successfully", NULL)
       : w \in process_waitlist(S1, t, booking.class_id, fault) }

\* ------------------------------------------------------ remove_from_waitlist
\* POST /waitlist/<entry_id>/remove.  fault = 1: the commit of the removal
\* raises; fault = 2: the commit of reorder_waitlist raises.
\* the entries a remove request may remove
removable(entry) == entry.status = "waiting"

remove_from_waitlist(S, t, entry_id, actor, fault) ==
  IF entry_id \notin DOMAIN S.waitlist
  THEN Reply(S, 404, "Waitlist entry not found", NULL)
  ELSE
  LET entry == S.waitlist[entry_id] IN
  IF ~owner_or_staff(entry.user_id, actor)
  THEN Reply(S, 403, "Unauthorized", NULL)
  ELSE IF ~removable(entry)
  THEN Reply(S, 400, "Waitlist entry cannot be removed", NULL)
  ELSE IF fault = 1
  THEN Reply(S, 500, "OperationalError", NULL)
  ELSE
  LET S1 == [S EXCEPT !.waitlist[entry_id].status = "removed"] IN
  IF fault = 2
  THEN Reply(S1, 500, "OperationalError", NULL)
  ELSE Reply([S1 EXCEPT !.waitlist = reorder_waitlist(@, entry.class_id)],
             200, "Removed from waitlist successfully", NULL)

\* -------------------------------------------------------------- cancel_class
\* variant: the cascade cancels the bookings and refunds nothing
RECURSIVE cancel_bookings_without_refund(_, _, _)
cancel_bookings_without_refund(S, t, ids) ==
  IF ids = {} THEN S
  ELSE LET b == Min(ids)
           S1 == [S EXCEPT !.bookings[b].status = "cancelled",
                           !.bookings[b].cancellation_time = t,
                           !.bookings[b].cancellation_reason = "Class cancelled by trainer"]
       IN cancel_bookings_without_refund(S1, t, ids \ {b})

\* the loop "for booking in bookings" of cancel_class over the keys in ids
RECURSIVE cancel_bookings(_, _, _)
cancel_bookings(S, t, ids) ==
  IF ids = {} THEN S
  ELSE LET b == Min(ids)
           S1 == [S EXCEPT !.bookings[b].status = "cancelled",
                           !.bookings[b].cancellation_time = t,
                           !.bookings[b].cancellation_reason = "Class cancelled by trainer",
                           !.memberships = refund_credits(@, t, S.bookings[b])]
       IN cancel_bookings(S1, t, ids \ {b})

\* variant: the cascade also takes the attended bookings
bookings_to_cancel_active(bk, class_id) ==
  { i \in DOMAIN bk : bk[i].class_id = class_id /\ bk[i].status \in ActiveStatuses }

\* Booking.query.filter(class_id == class_id, status == 'booked').all()
bookings_to_cancel(bk, class_id) ==
  { i \in DOMAIN bk : bk[i].class_id = class_id /\ bk[i].status = "booked" }

\* POST /trainer/classes/<class_id>/cancel
cancel_class(S, t, class_id, actor, reason, fault) ==
  IF actor.role \notin {"trainer", "admin"}
  THEN Reply(S, 403, "Insufficient permissions", NULL)
  ELSE IF class_id \notin DOMAIN S.classes
  THEN Reply(S, 404, "Class not found", NULL)
  ELSE
  LET class_obj == S.classes[class_id] IN
  IF actor.role = "trainer" /\ class_obj.trainer_id # actor.id
  THEN Reply(S, 403, "Unauthorized", NULL)
  ELSE IF class_obj.is_cancelled
  THEN Reply(S, 400, "Class is already cancelled", NULL)
  ELSE IF class_ended(class_obj, t)
  THEN Reply(S, 400, "Cannot cancel a class that has already ended", NULL)
  ELSE IF reason \in {NullStr, ""}
  THEN Reply(S, 400, "Cancellation reason is required", NULL)
  ELSE IF fault
  THEN Reply(S, 500, "OperationalError", NULL)
  ELSE
  LET S1 == [S EXCEPT !.classes[class_id].is_cancelled = TRUE,
                      !.classes[class_id].cancellation_reason = reason]
      booked == bookings_to_cancel(S.bookings, class_id)
  IN Reply(cancel_bookings(S1, t, booked), 200, "Class cancelled successfully", NULL)

\* --------------------------------------------------------- check_in_attendee
\* variant: a no-show can still be checked in
checkable_after_no_show(booking) == booking.status \in {"booked", "no-show"}

\* booking.status == 'booked': the booking can still be checked in
checkable(booking) == booking.status = "booked"

\* POST /trainer/classes/<class_id>/check-in/<booking_id>
check_in_attendee(S, t, class_id, booking_id, actor, fault) ==
  IF actor.role \notin {"trainer", "admin"}
  THEN Reply(S, 403, "Insufficient permissions", NULL)
  ELSE IF booking_id \notin DOMAIN S.bookings \/ S.bookings[booking_id].class_id # class_id
  THEN Reply(S, 404, "Booking not found", NULL)
  ELSE IF class_id \notin DOMAIN S.classes
  THEN Reply(S, 404, "Class not found", NULL)
  ELSE IF actor.role = "trainer" /\ S.classes[class_id].trainer_id # actor.id
  THEN Reply(S, 403, "Unauthorized", NULL)
  ELSE IF ~checkable(S.bookings[booking_id])
  THEN Reply(S, 400, "Cannot check in booking", NULL)
  ELSE IF fault
  THEN Reply(S, 500, "OperationalError", NULL)
  ELSE Reply([S EXCEPT !.bookings[booking_id].status = "attended"],
             200, "Attendee checked in successfully", NULL)

\* -------------------------------------------------------------- mark_no_show
\* POST /trainer/classes/<class_id>/no-show/<booking_id>
mark_no_show(S, t, class_id, booking_id, actor, fault) ==
  IF actor.role \notin {"trainer", "admin"}
  THEN Reply(S, 403, "Insufficient permissions", NULL)
  ELSE IF booking_id \notin DOMAIN S.bookings \/ S.bookings[booking_id].class_id # class_id
  THEN Reply(S, 404, "Booking not found", NULL)
  ELSE IF class_id \notin DOMAIN S.classes
  THEN Reply(S, 404, "Class not found", NULL)
  ELSE IF actor.role = "trainer" /\ S.classes[class_id].trainer_id # actor.id
  THEN Reply(S, 403, "Unauthorized", NULL)
  ELSE IF S.classes[class_id].start_time > t
  THEN Reply(S, 400, "Cannot mark no-show before class starts", NULL)
  ELSE IF S.bookings[booking_id].status # "booked"
  THEN Reply(S, 400, "Cannot mark no-show for booking", NULL)
  ELSE IF fault
  THEN Reply(S, 500, "OperationalError", NULL)
  ELSE Reply([S EXCEPT !.bookings[booking_id].status = "no-show"],
             200, "Attendee marked as no-show successfully", NULL)

\* -------------------------------------------------------------- update_class
\* PUT /trainer/classes/<class_id> with the body {"capacity": capacity}
update_class(S, t, class_id, actor, capacity, fault) ==
  IF actor.role \notin {"trainer", "admin"}
  THEN Reply(S, 403, "Insufficient permissions", NULL)
  ELSE IF class_id \notin DOMAIN S.classes
  THEN Reply(S, 404, "Class not found", NULL)
  ELSE
  LET class_obj == S.classes[class_id] IN
  IF actor.role = "trainer" /\ class_obj.trainer_id # actor.id
  THEN Reply(S, 403, "Unauthorized", NULL)
  ELSE IF class_obj.start_time < t
  THEN Reply(S, 400, "Cannot update a class that has already started", NULL)
  ELSE IF class_obj.start_time >= class_obj.end_time
  THEN Reply(S, 400, "Start time must be before end time", NULL)
  ELSE IF capacity < booking_count(S.bookings, class_id)
  THEN Reply(S, 400, "Cannot reduce capacity below current booking count", NULL)
  ELSE IF fault
  THEN Reply(S, 500, "OperationalError", NULL)
  ELSE Reply([S EXCEPT !.classes[class_id].capacity = capacity],
             200, "Class updated successfully", NULL)

\* ------------------------------------------------------------------ actions
NoResp == [op |-> "none", code |-> 0, msg |-> "", val |-> NULL]

Response(op, r) == [op |-> op, code |-> r.code, msg |-> r.msg, val |-> r.val]

Install(op, r) ==
  /\ classes' = r.store.classes
  /\ bookings' = r.store.bookings
  /\ waitlist' = r.store.waitlist
  /\ memberships' = r.store.memberships
  /\ resp' = Response(op, r)
  /\ served' = served + 1

\* the memberships the members hold when the first request arrives
InitialMemberships ==
  << NewMembership("u1", 1, 2),
     NewMembership("u2", MaxTime, NULL),
     NewMembership("u3", MaxTime, 1) >>

Init ==
  /\ now = 0
  /\ classes = [c \in {"c1", "c2"} |->
                  IF c = "c1" THEN NewClass("t1", MaxTime, MaxTime + 1, 1, 1)
                              ELSE NewClass("a1", 0, 1, 1, 2)]
  /\ bookings = <<>>
  /\ waitlist = <<>>
  /\ memberships = InitialMemberships
  /\ resp = NoResp
  /\ served = 0
  /\ inflight = {}

\* time passes between two requests
Tick ==
  /\ now < MaxTime
  /\ now' = now + 1
  /\ UNCHANGED <<classes, bookings, waitlist, memberships, resp, served, inflight>>

\* a client still has a request to send
CanRequest == served < MaxRequests

CreateBooking(a, c) ==
  /\ CanRequest
  /\ Install("create_booking", create_booking(Store, now, a.id, c, FALSE))
  /\ UNCHANGED <<now, inflight>>

\* keys a request can name: every row of the table and one unknown key
BookingIdInputs == 1 .. (Len(bookings) + 1)
EntryIdInputs == 1 .. (Len(waitlist) + 1)
\* the reason a member gives when cancelling
BookingReasons == {"changed plans"}
\* the reason a trainer gives, or leaves out, when cancelling a class
ClassReasons == {"", "trainer ill"}
\* the capacities a trainer sends
CapacityInputs == {0, 1, 2}

CancelBooking(a, b) ==
  /\ CanRequest
  /\ \E reason \in BookingReasons :
       \E r \in cancel_booking(Store, now, b, a, reason, 0) :
          Install("cancel_booking", r)
  /\ UNCHANGED <<now, inflight>>

RemoveFromWaitlist(a, e) ==
  /\ CanRequest
  /\ Install("remove_from_waitlist", remove_from_waitlist(Store, now, e, a, 0))
  /\ UNCHANGED <<now, inflight>>

CancelClass(a, c) ==
  /\ CanRequest
  /\ \E reason \in ClassReasons :
       Install("cancel_class", cancel_class(Store, now, c, a, reason, FALSE))
  /\ UNCHANGED <<now, inflight>>

CheckIn(a, c, b) ==
  /\ CanRequest
  /\ Install("check_in_attendee", check_in_attendee(Store, now, c, b, a, FALSE))
  /\ UNCHANGED <<now, inflight>>

NoShow(a, c, b) ==
  /\ CanRequest
  /\ Install("mark_no_show", mark_no_show(Store, now, c, b, a, FALSE))
  /\ UNCHANGED <<now, inflight>>

UpdateClass(a, c) ==
  /\ CanRequest
  /\ \E capacity \in CapacityInputs :
       Install("update_class", update_class(Store, now, c, a, capacity, FALSE))
  /\ UNCHANGED <<now, inflight>>

Next ==
  \/ Tick
  \/ \E a \in Actors, c \in ClassIdInputs : CreateBooking(a, c)
  \/ \E a \in Actors, b \in BookingIdInputs : CancelBooking(a, b)
  \/ \E a \in Actors, e \in EntryIdInputs : RemoveFromWaitlist(a, e)
  \/ \E a \in Actors, c \in ClassIdInputs : CancelClass(a, c)
  \/ \E a \in Actors, c \in ClassIdInputs, b \in BookingIdInputs : CheckIn(a, c, b)
  \/ \E a \in Actors, c \in ClassIdInputs, b \in BookingIdInputs : NoShow(a, c, b)
  \/ \E a \in Actors, c \in ClassIdInputs : UpdateClass(a, c)

\* every request is served alone and the store raises no error of its own
Spec == Init /\ [][Next]_vars

\* ------------------------------------------------- requests hit by a store error
\* which commit of the request raises: none, the first, the second, the third
Faults == 0 .. 3

CreateBookingFault(a, c) ==
  /\ CanRequest
  /\ \E fault \in BOOLEAN :
       Install("create_booking", create_booking(Store, now, a.id, c, fault))
  /\ UNCHANGED <<now, inflight>>

CancelBookingFault(a, b) ==
  /\ CanRequest
  /\ \E reason \in BookingReasons, fault \in Faults :
       \E r \in cancel_booking(Store, now, b, a, reason, fault) :
          Install("cancel_booking", r)
  /\ UNCHANGED <<now, inflight>>

RemoveFromWaitlistFault(a, e) ==
  /\ CanRequest
  /\ \E fault \in Faults :
       Install("remove_from_waitlist", remove_from_waitlist(Store, now, e, a, fault))
  /\ UNCHANGED <<now, inflight>>

CancelClassFault(a, c) ==
  /\ CanRequest
  /\ \E reason \in ClassReasons, fault \in BOOLEAN :
       Install("cancel_class", cancel_class(Store, now, c, a, reason, fault))
  /\ UNCHANGED <<now, inflight>>

NextFault ==
  \/ Tick
  \/ \E a \in Actors, c \in ClassIdInputs : CreateBookingFault(a, c)
  \/ \E a \in Actors, b \in BookingIdInputs : CancelBookingFault(a, b)
  \/ \E a \in Actors, e \in EntryIdInputs : RemoveFromWaitlistFault(a, e)
  \/ \E a \in Actors, c \in ClassIdInputs : CancelClassFault(a, c)

\* every request is served alone; any commit may raise
SpecFault == Init /\ [][NextFault]_vars

\* ------------------------------------------------------ interleaved requests
\* number of create_booking requests that can be between reads and commit
MaxInflight == 2

\* create_booking runs its reads; a refusal is answered at once, otherwise the
\* request holds its Booking / WaitlistEntry object until its commit
BeginCreateBooking(a, c) ==
  /\ CanRequest
  /\ Cardinality(inflight) < MaxInflight
  /\ LET p == create_booking_read(Store, now, a.id, c)
     IN IF p.kind = "reply"
        THEN /\ resp' = Response("create_booking", Reply(Store, p.code, p.msg, NULL))
             /\ inflight' = inflight
        ELSE /\ inflight' = inflight \cup { [req |-> served + 1, plan |-> p] }
             /\ resp' = resp
  /\ served' = served + 1
  /\ UNCHANGED <<now, classes, bookings, waitlist, memberships>>

\* db.session.commit() of a request that began earlier
CommitCreateBooking(q) ==
  /\ q \in inflight
  /\ LET r == create_booking_commit(Store, now, q.plan, FALSE)
     IN /\ classes' = r.store.classes
        /\ bookings' = r.store.bookings
        /\ waitlist' = r.store.waitlist
        /\ memberships' = r.store.memberships
        /\ resp' = Response("create_booking", r)
  /\ inflight' = inflight \ {q}
  /\ UNCHANGED <<now, served>>

NextConc ==
  \/ Tick
  \/ \E a \in Actors, c \in ClassIdInputs : BeginCreateBooking(a, c)
  \/ \E q \in inflight : CommitCreateBooking(q)
  \/ \E a \in Actors, b \in BookingIdInputs : CancelBooking(a, b)
  \/ \E a \in Actors, e \in EntryIdInputs : RemoveFromWaitlist(a, e)
  \/ \E a \in Actors, c \in ClassIdInputs, b \in BookingIdInputs : CheckIn(a, c, b)

\* requests of different clients overlap: the reads of one create_booking can
\* be followed by the commits of others before its own commit
SpecConc == Init /\ [][NextConc]_vars

\* --------------------------------------------------- membership edited by admin
\* PUT /admin/memberships/<membership_id> with the body
\* {"remaining_credits": remaining_credits}
update_membership(S, t, membership_id, actor, remaining_credits, fault) ==
  IF actor.role # "admin"
  THEN Reply(S, 403, "Insufficient permissions", NULL)
  ELSE IF membership_id \notin DOMAIN S.memberships
  THEN Reply(S, 404, "Membership not found", NULL)
  ELSE IF fault
  THEN Reply(S, 500, "OperationalError", NULL)
  ELSE Reply([S EXCEPT !.memberships[membership_id].remaining_credits = remaining_credits],
             200, "Membership updated successfully", NULL)

\* keys a request can name: every membership and one unknown key
MembershipIdInputs == 1 .. (Len(memberships) + 1)
\* the balances an admin sets: unlimited, or a number of credits
CreditInputs == {NULL, 0, 2}

UpdateMembership(a, m) ==
  /\ CanRequest
  /\ \E credits \in CreditInputs :
       Install("update_membership", update_membership(Store, now, m, a, credits, FALSE))
  /\ UNCHANGED <<now, inflight>>

NextAdmin ==
  \/ Tick
  \/ \E a \in Actors, c \in ClassIdInputs : CreateBooking(a, c)
  \/ \E a \in Actors, b \in BookingIdInputs : CancelBooking(a, b)
  \/ \E a \in Actors, c \in ClassIdInputs : CancelClass(a, c)
  \/ \E a \in Actors, m \in MembershipIdInputs : UpdateMembership(a, m)

\* every request is served alone; an admin edits memberships in between
SpecAdmin == Init /\ [][NextAdmin]_vars

\* ------------------------------------------------- reorder_waitlist alone
\* number of rows of waitlist_entries the reorder is started from
MaxEntries == 2

\* one user per row: (user_id, class_id) is unique in waitlist_entries
EntryUsers == <<"u1", "u2", "u3", "t1", "a1">>
EntryStatuses == {"waiting", "notified", "removed"}
\* stored positions, with gaps and duplicates
EntryPositions == 1 .. (MaxEntries + 1)

\* the tables of n rows: any class, status and position per row, and the
\* join times in any order relative to the keys (no two at the same instant)
WaitlistTables(n) ==
  { [i \in 1 .. n |->
       [user_id |-> EntryUsers[i], class_id |-> c[i], position |-> pos[i],
        join_time |-> jt[i], status |-> st[i],
        notification_time |-> IF st[i] = "notified" THEN 0 ELSE NULL]] :
    c \in [1 .. n -> {"c1", "c2"}], pos \in [1 .. n -> EntryPositions],
    st \in [1 .. n -> EntryStatuses],
    jt \in { f \in [1 .. n -> 1 .. n] : \A i, j \in 1 .. n : i # j => f[i] # f[j] } }

InitReorder ==
  /\ now = 0
  /\ classes = [c \in {"c1", "c2"} |->
                  IF c = "c1" THEN NewClass("t1", MaxTime, MaxTime + 1, 1, 1)
                              ELSE NewClass("a1", 0, 1, 1, 2)]
  /\ bookings = <<>>
  /\ \E n \in 0 .. MaxEntries : waitlist \in WaitlistTables(n)
  /\ memberships = InitialMemberships
  /\ resp = NoResp
  /\ served = 0
  /\ inflight = {}

\* reorder_waitlist(class_id) and its commit
Reorder(c) ==
  /\ waitlist' = reorder_waitlist(waitlist, c)
  /\ resp' = [op |-> "reorder_waitlist", code |-> 0, msg |-> c, val |-> NULL]
  /\ UNCHANGED <<now, classes, bookings, memberships, served, inflight>>

NextReorder == \E c \in ClassIdInputs : Reorder(c)

SpecReorder == InitReorder /\ [][NextReorder]_vars

\* --------------------------------------------- interleaved waitlist removal
\* remove_from_waitlist up to its checks: the reply of a refused request, or
\* the entry it is going to mark removed
remove_from_waitlist_read(S, t, entry_id, actor) ==
  IF entry_id \notin DOMAIN S.waitlist
  THEN [kind |-> "reply", code |-> 404, msg |-> "Waitlist entry not found"]
  ELSE
  LET entry == S.waitlist[entry_id] IN
  IF ~owner_or_staff(entry.user_id, actor)
  THEN [kind |-> "reply", code |-> 403, msg |-> "Unauthorized"]
  ELSE IF ~removable(entry)
  THEN [kind |-> "reply", code |-> 400, msg |-> "Waitlist entry cannot be removed"]
  ELSE [kind |-> "remove", code |-> 200, msg |-> "Removed from waitlist successfully",
        entry_id |-> entry_id, class_id |-> entry.class_id]

\* entry.status = 'removed' is written to the row whatever it holds by now,
\* then the class's waitlist is reordered
remove_from_waitlist_commit(S, t, p, fault) ==
  IF fault = 1
  THEN Reply(S, 500, "OperationalError", NULL)
  ELSE
  LET S1 == [S EXCEPT !.waitlist[p.entry_id].status = "removed"] IN
  IF fault = 2
  THEN Reply(S1, 500, "OperationalError", NULL)
  ELSE Reply([S1 EXCEPT !.waitlist = reorder_waitlist(@, p.class_id)],
             p.code, p.msg, NULL)

BeginRemoveFromWaitlist(a, e) ==
  /\ CanRequest
  /\ Cardinality(inflight) < MaxInflight
  /\ LET p == remove_from_waitlist_read(Store, now, e, a)
     IN IF p.kind = "reply"
        THEN /\ resp' = Response("remove_from_waitlist", Reply(Store, p.code, p.msg, NULL))
             /\ inflight' = inflight
        ELSE /\ inflight' = inflight \cup { [req |-> served + 1, plan |-> p] }
             /\ resp' = resp
  /\ served' = served + 1
  /\ UNCHANGED <<now, classes, bookings, waitlist, memberships>>

CommitRemoveFromWaitlist(q) ==
  /\ q \in inflight
  /\ q.plan.kind = "remove"
  /\ LET r == remove_from_waitlist_commit(Store, now, q.plan, 0)
     IN /\ waitlist' = r.store.waitlist
        /\ resp' = Response("remove_from_waitlist", r)
  /\ inflight' = inflight \ {q}
  /\ UNCHANGED <<now, served, classes, bookings, memberships>>

NextRemove ==
  \/ Tick
  \/ \E a \in Actors, c \in ClassIdInputs : CreateBooking(a, c)
  \/ \E a \in Actors, b \in BookingIdInputs : CancelBooking(a, b)
  \/ \E a \in Actors, e \in EntryIdInputs : BeginRemoveFromWaitlist(a, e)
  \/ \E q \in inflight : CommitRemoveFromWaitlist(q)

\* remove_from_waitlist requests overlap whole create_booking and
\* cancel_booking requests
SpecRemove == Init /\ [][NextRemove]_vars

\* ------------------------------------------- interleaved cancellations
\* The reads of cancel_booking up to the writes on the booking object: the
\* booking, the ownership check, the status check, the class.  seen is the
\* memberships table as of the transaction's first read.
cancel_booking_read(S, t, booking_id, actor, reason) ==
  LET refuse(code, msg) == [kind |-> "reply", code |-> code, msg |-> msg] IN
  IF booking_id \notin DOMAIN S.bookings
  THEN refuse(404, "Booking not found")
  ELSE
  LET booking == S.bookings[booking_id] IN
  IF ~owner_or_staff(booking.user_id, actor)
  THEN refuse(403, "Unauthorized")
  ELSE IF ~cancellable(booking)
  THEN refuse(400, "Booking cannot be cancelled")
  ELSE IF booking.class_id \notin DOMAIN S.classes
  THEN refuse(404, "Class not found")
  ELSE IF class_started(S.classes[booking.class_id], t)
  THEN refuse(400, "Cannot cancel a booking for a class that has already started")
  ELSE [kind |-> "cancel", code |-> 200, msg |-> "Booking cancelled successfully",
        booking_id |-> booking_id, booking |-> booking, reason |-> reason,
        seen |-> S.memberships]

\* The membership query, the refund and the commit of cancel_booking, then
\* process_waitlist, for a request that ran its reads earlier.  The UPDATEs
\* carry the values computed in Python.  snapshot: the store answers the
\* membership query from the transaction's snapshot (repeatable read) instead
\* of the last committed rows (read committed); the source fixes neither.
cancel_booking_commit(S, t, p, snapshot, fault) ==
  IF fault = 1
  THEN { Reply(S, 500, "OperationalError", NULL) }
  ELSE
  LET view == IF snapshot THEN p.seen ELSE S.memberships
      refunded == refund_credits(view, t, p.booking)
      S1 == [S EXCEPT !.bookings[p.booking_id].status = "cancelled",
                      !.bookings[p.booking_id].cancellation_time = t,
                      !.bookings[p.booking_id].cancellation_reason = p.reason,
                      !.memberships = [m \in DOMAIN @ |->
                                         IF refunded[m] # view[m] THEN refunded[m] ELSE @[m]]]
  IN { IF w.raised THEN Reply(w.store, 500, "OperationalError", NULL)
       ELSE Reply(w.store, p.code, p.msg, NULL)
       : w \in process_waitlist(S1, t, p.booking.class_id, fault) }

\* cancel_booking runs its reads; a refusal is answered at once
BeginCancelBooking(a, b) ==
  /\ CanRequest
  /\ Cardinality(inflight) < MaxInflight
  /\ \E reason \in BookingReasons :
       LET p == cancel_booking_read(Store, now, b, a, reason)
       IN IF p.kind = "reply"
          THEN /\ resp' = Response("cancel_booking", Reply(Store, p.code, p.msg, NULL))
               /\ inflight' = inflight
          ELSE /\ inflight' = inflight \cup { [req |-> served + 1, plan |-> p] }
               /\ resp' = resp
  /\ served' = served + 1
  /\ UNCHANGED <<now, classes, bookings, waitlist, memberships>>

\* the refund and the commit of a cancel_booking that began earlier
CommitCancelBooking(q) ==
  /\ q \in inflight
  /\ q.plan.kind = "cancel"
  /\ \E snapshot \in BOOLEAN :
       \E r \in cancel_booking_commit(Store, now, q.plan, snapshot, 0) :
          /\ classes' = r.store.classes
          /\ bookings' = r.store.bookings
          /\ waitlist' = r.store.waitlist
          /\ memberships' = r.store.memberships
          /\ resp' = Response("cancel_booking", r)
  /\ inflight' = inflight \ {q}
  /\ UNCHANGED <<now, served>>

\* the commit of a create_booking among the requests in flight
CommitCreate(q) ==
  /\ q.plan.kind \in {"booking", "waitlist"}
  /\ CommitCreateBooking(q)

NextRace ==
  \/ Tick
  \/ \E a \in Actors, c \in ClassIdInputs : BeginCreateBooking(a, c)
  \/ \E q \in inflight : CommitCreate(q)
  \/ \E a \in Actors, b \in BookingIdInputs : BeginCancelBooking(a, b)
  \/ \E q \in inflight : CommitCancelBooking(q)
  \/ \E a \in Actors, c \in ClassIdInputs : CancelClass(a, c)

\* create_booking and cancel_booking requests overlap each other and whole
\* cancel_class requests
SpecRace == Init /\ [][NextRace]_vars

\* ================================================================ properties
\* bookings of class c that count against its capacity
ActiveBookingsOf(c) ==
  { i \in DOMAIN bookings :
      bookings[i].class_id = c /\ bookings[i].status \in {"booked", "attended"} }

\* waitlist entries of class c in status waiting
WaitingOf(c) ==
  { i \in DOMAIN waitlist : waitlist[i].class_id = c /\ waitlist[i].status = "waiting" }

\* C1: with requests served one at a time, after any sequence of create,
\* cancel, cancel-class, check-in, no-show and capacity-update requests every
\* class has at most `capacity` bookings in status booked or attended.
C1_CapacityRespected ==
  \A c \in DOMAIN classes : Cardinality(ActiveBookingsOf(c)) <= classes[c].capacity

\* a class is exactly full and the last create_booking was sent to the waitlist
C1_Witness ==
  /\ resp.op = "create_booking" /\ resp.msg = "Added to waitlist"
  /\ \E c \in DOMAIN classes :
       /\ classes[c].capacity >= 1
       /\ Cardinality(ActiveBookingsOf(c)) = classes[c].capacity

\* C2: in every reachable state, also when create_booking requests of one
\* user for one class overlap, each (user, class) pair has at most one booking
\* in status booked or attended.
C2_OneActiveBookingPerUserAndClass ==
  \A a \in Actors, c \in DOMAIN classes :
     Cardinality({ i \in ActiveBookingsOf(c) : bookings[i].user_id = a.id }) <= 1

\* two overlapping requests both passed the existing-booking check; the second
\* commit was rejected by the unique constraint (no booking was ever cancelled)
C2_Witness ==
  /\ resp.op = "create_booking" /\ resp.msg = "IntegrityError"
  /\ bookings # <<>> /\ waitlist = <<>>
  /\ \A i \in DOMAIN bookings : bookings[i].status = "booked"

\* C3: with requests served one at a time, for every class the positions of
\* the waiting entries are exactly 1..N (N the number of waiting entries, no
\* gap, no duplicate) and follow the order of the join times.
C3_WaitingPositionsContiguous ==
  \A c \in DOMAIN classes :
     /\ { waitlist[i].position : i \in WaitingOf(c) } = 1 .. Cardinality(WaitingOf(c))
     /\ \A i, j \in WaitingOf(c) :
          waitlist[i].join_time < waitlist[j].join_time
             => waitlist[i].position < waitlist[j].position

\* a removal or a promotion has closed a gap: an entry that joined behind a
\* removed or notified one is now first
C3_Witness ==
  /\ resp.op \in {"remove_from_waitlist", "cancel_booking"} /\ resp.code = 200
  /\ \E i, j \in DOMAIN waitlist :
       /\ j < i /\ waitlist[i].class_id = waitlist[j].class_id
       /\ waitlist[j].status \in {"removed", "notified"}
       /\ waitlist[i].status = "waiting" /\ waitlist[i].position = 1
\* the active, unexpired memberships of user u at time t
MembershipsOf(u, t) ==
  { m \in DOMAIN memberships :
      /\ memberships[m].user_id = u /\ memberships[m].status = "active"
      /\ memberships[m].end_date >= t }

\* user u holds a booking in status booked or attended for class c
HoldsActiveBooking(u, c) == \E i \in ActiveBookingsOf(c) : bookings[i].user_id = u

\* class c exists, has not started and is not cancelled, and user u has an
\* active unexpired membership with enough credits for it
Eligible(u, c) ==
  /\ c \in DOMAIN classes
  /\ classes[c].start_time >= now /\ ~classes[c].is_cancelled
  /\ \E m \in MembershipsOf(u, now) :
       \/ memberships[m].remaining_credits = NULL
       \/ memberships[m].remaining_credits >= classes[c].credits_required

HasFreeCapacity(c) == Cardinality(ActiveBookingsOf(c)) < classes[c].capacity

\* C4 (as stated): for a user whose active unexpired membership has finite
\* credits, a successful create_booking followed by a successful
\* cancel_booking of that booking, nothing else happening to the user in
\* between, leaves remaining_credits at its value before the booking.
\* Stated of the runs whose only requests are the booking and its
\* cancellation, so that the value before the booking is the initial one.
C4_RoundTripAsStated ==
  (/\ served = 2 /\ resp.op = "cancel_booking" /\ resp.code = 200
   /\ Len(bookings) = 1 /\ bookings[1].status = "cancelled")
  => \A m \in DOMAIN memberships :
       (/\ memberships[m].user_id = bookings[1].user_id
        /\ InitialMemberships[m].remaining_credits # NULL)
       => memberships[m].remaining_credits = InitialMemberships[m].remaining_credits

\* C4 (amended): the same, provided the membership is still active and
\* unexpired at the time of the cancellation.
C4_RoundTripWhileMembershipLasts ==
  \A a \in Actors, c \in DOMAIN classes :
    \A m \in MembershipsOf(a.id, now) :
      LET booked == create_booking(Store, now, a.id, c, FALSE) IN
      (/\ MembershipsOf(a.id, now) = {m}
       /\ memberships[m].remaining_credits # NULL
       /\ booked.code = 201 /\ booked.msg = "Booking created successfully")
      => \A canceller \in Actors, t2 \in now .. MaxTime, reason \in BookingReasons :
           MembershipsOf(a.id, t2) = {m}
           => \A cancelled \in cancel_booking(booked.store, t2, booked.val,
                                              canceller, reason, 0) :
                cancelled.code = 200
                  => cancelled.store.memberships[m].remaining_credits
                       = memberships[m].remaining_credits

\* a member with finite credits has booked and then cancelled, and holds
\* again the credits the membership started with
C4_Witness ==
  /\ served = 2 /\ resp.op = "cancel_booking" /\ resp.code = 200
  /\ Len(bookings) = 1 /\ bookings[1].status = "cancelled" /\ bookings[1].credits_used > 0
  /\ \E m \in MembershipsOf(bookings[1].user_id, now) :
       /\ memberships[m].remaining_credits # NULL
       /\ memberships[m].remaining_credits = InitialMemberships[m].remaining_credits

\* C5: a create_booking that books inserts the booking (status booked,
\* credits_used = the class's credits_required) and debits a finite balance
\* by the same amount in one step; if its commit fails the answer is a server
\* error and the store holds neither the booking nor the debit.
C5_FailedCommitLeavesNothing ==
  \A a \in Actors, c \in DOMAIN classes :
    LET p == create_booking_read(Store, now, a.id, c)
        r == create_booking_commit(Store, now, p, TRUE)
    IN p.kind = "booking" => r.code = 500 /\ r.store = Store

C5_Step ==
  (resp'.op = "create_booking" /\ served' = served + 1) =>
     \/ /\ resp'.code = 201 /\ resp'.msg = "Booking created successfully"
        /\ Len(bookings') = Len(bookings) + 1
        /\ LET b == bookings'[Len(bookings')]
               M == MembershipsOf(b.user_id, now)
           IN /\ b.status = "booked"
              /\ b.credits_used = classes[b.class_id].credits_required
              /\ \A m \in DOMAIN memberships :
                   memberships'[m].remaining_credits =
                     IF m \in M /\ memberships[m].remaining_credits # NULL
                     THEN memberships[m].remaining_credits - b.credits_used
                     ELSE memberships[m].remaining_credits
     \/ /\ bookings' = bookings /\ memberships' = memberships
        /\ resp'.code = 500 => (waitlist' = waitlist /\ classes' = classes)

C5_BookingAndDebitTogether == []C5_FailedCommitLeavesNothing /\ [][C5_Step]_vars

\* the commit of the first booking request failed: server error, empty store
C5_Witness ==
  /\ served = 1 /\ resp.op = "create_booking"
  /\ resp.code = 500 /\ resp.msg = "OperationalError"
  /\ bookings = <<>> /\ waitlist = <<>> /\ memberships = InitialMemberships

\* C6: a create_booking by a user whose membership has finite credits below
\* the class's credits_required never succeeds and changes nothing, and it is
\* answered Forbidden whenever no earlier check of the handler (class started,
\* class cancelled, booking already held) answers first; hence a finite
\* remaining_credits is never negative.
C6_InsufficientCreditsRefused ==
  /\ \A a \in Actors, c \in DOMAIN classes :
       LET r == create_booking(Store, now, a.id, c, FALSE) IN
       (\E m \in MembershipsOf(a.id, now) :
           /\ memberships[m].remaining_credits # NULL
           /\ memberships[m].remaining_credits < classes[c].credits_required)
       => /\ r.store = Store
          /\ r.code \in {400, 403, 409}
          /\ (/\ classes[c].start_time >= now /\ ~classes[c].is_cancelled
              /\ ~HoldsActiveBooking(a.id, c))
             => r.code = 403
  /\ \A m \in DOMAIN memberships :
       memberships[m].remaining_credits # NULL => memberships[m].remaining_credits >= 0

\* a member has spent every credit and the next booking was refused for it
C6_Witness ==
  /\ resp.op = "create_booking" /\ resp.code = 403
  /\ resp.msg = "You do not have enough credits"
  /\ \E m \in DOMAIN memberships : memberships[m].remaining_credits = 0
\* C7 (as stated): create_booking answers Conflict for a booking already held
\* only when the user holds a booking in status booked or attended for the
\* class; on an existing, not started, not cancelled class with free capacity,
\* a user with an active unexpired membership and enough credits who holds no
\* active booking for it gets a booking in status booked and its identifier,
\* also when an earlier booking of the user for the class is cancelled.
C7_EligibleUserGetsBooking ==
  \A a \in Actors, c \in DOMAIN classes :
    LET r == create_booking(Store, now, a.id, c, FALSE) IN
    /\ (r.code = 409 /\ r.msg = "You already have a booking for this class")
         => HoldsActiveBooking(a.id, c)
    /\ (Eligible(a.id, c) /\ HasFreeCapacity(c) /\ ~HoldsActiveBooking(a.id, c))
         => /\ r.code = 201
            /\ r.val \in DOMAIN r.store.bookings
            /\ r.val \notin DOMAIN bookings
            /\ r.store.bookings[r.val].user_id = a.id
            /\ r.store.bookings[r.val].class_id = c
            /\ r.store.bookings[r.val].status = "booked"

\* user u has an entry in status waiting for class c
IsWaiting(u, c) == \E i \in WaitingOf(c) : waitlist[i].user_id = u

\* largest position among the waiting entries of class c, 0 if there is none
LastWaitingPosition(c) ==
  IF WaitingOf(c) = {} THEN 0
  ELSE CHOOSE n \in { waitlist[i].position : i \in WaitingOf(c) } :
         \A i \in WaitingOf(c) : waitlist[i].position <= n

\* C8 (as stated): create_booking on a class without free capacity, by an
\* otherwise eligible user with no entry in status waiting for it, appends an
\* entry in status waiting at position (largest waiting position) + 1, returns
\* that position, creates no booking and changes no remaining_credits, also
\* when an earlier entry of the user for the class is removed or notified.
C8_FullClassJoinsWaitlist ==
  \A a \in Actors, c \in DOMAIN classes :
    LET r == create_booking(Store, now, a.id, c, FALSE) IN
    (/\ Eligible(a.id, c) /\ ~HasFreeCapacity(c)
     /\ ~HoldsActiveBooking(a.id, c) /\ ~IsWaiting(a.id, c))
    => /\ r.code = 201 /\ r.msg = "Added to waitlist"
       /\ r.val = LastWaitingPosition(c) + 1
       /\ Len(r.store.waitlist) = Len(waitlist) + 1
       /\ LET e == r.store.waitlist[Len(r.store.waitlist)]
          IN /\ e.user_id = a.id /\ e.class_id = c
             /\ e.status = "waiting" /\ e.position = r.val
       /\ r.store.bookings = bookings
       /\ r.store.memberships = memberships

\* C9: every refused create_booking (class absent, class started, class
\* cancelled, active booking held, no active unexpired membership, not enough
\* credits, already waiting on a full class) leaves bookings, waitlist entries
\* and memberships as they were; booking a class that started before now is
\* refused and creates neither a booking nor a waitlist entry, full or not.
C9_RefusedCreateChangesNothing ==
  \A a \in Actors, c \in ClassIdInputs :
    LET r == create_booking(Store, now, a.id, c, FALSE)
        refused == r.code \in {400, 403, 404, 409} /\ r.store = Store
    IN /\ r.code # 201 => r.store = Store
       /\ c \notin DOMAIN classes => r.code = 404 /\ r.store = Store
       /\ c \in DOMAIN classes =>
            /\ classes[c].start_time < now => r.code = 400 /\ r.store = Store
            /\ classes[c].is_cancelled => refused
            /\ HoldsActiveBooking(a.id, c) => refused
            /\ MembershipsOf(a.id, now) = {} => refused
            /\ (\E m \in MembershipsOf(a.id, now) :
                  /\ memberships[m].remaining_credits # NULL
                  /\ memberships[m].remaining_credits < classes[c].credits_required)
                 => refused
            /\ (~HasFreeCapacity(c) /\ IsWaiting(a.id, c)) => refused

\* a full class has started and the last create_booking was refused for its
\* start time (c2 is the class that starts within the clock's range)
C9_Witness ==
  /\ resp.op = "create_booking" /\ resp.code = 400
  /\ resp.msg = "Cannot book a class that has already started"
  /\ classes["c2"].start_time < now
  /\ classes["c2"].capacity >= 1 /\ ~HasFreeCapacity("c2")

\* C10: cancel_booking is answered Forbidden when the actor neither owns the
\* booking nor is admin or trainer, and InvalidState when the booking is not
\* in status booked or its class has started; in each case nothing changes.
C10_RefusedCancelChangesNothing ==
  \A a \in Actors, b \in DOMAIN bookings, reason \in BookingReasons :
    \A r \in cancel_booking(Store, now, b, a, reason, 0) :
      LET mayAct == bookings[b].user_id = a.id \/ a.role \in {"admin", "trainer"}
      IN /\ ~mayAct => r.code = 403 /\ r.store = Store
         /\ (/\ mayAct
             /\ \/ bookings[b].status # "booked"
                \/ classes[bookings[b].class_id].start_time < now)
            => r.code = 400 /\ r.store = Store

\* C10, consequence: a cancelled booking is never touched again, and credits
\* are added to a membership only in the step that cancels a booked booking of
\* its owner, by that booking's credits_used.
C10_Step ==
  /\ \A b \in DOMAIN bookings :
       bookings[b].status = "cancelled" => bookings'[b] = bookings[b]
  /\ \A m \in DOMAIN memberships :
       memberships'[m].remaining_credits > memberships[m].remaining_credits
       => \E b \in DOMAIN bookings :
            /\ bookings[b].user_id = memberships[m].user_id
            /\ bookings[b].status = "booked" /\ bookings'[b].status = "cancelled"
            /\ memberships'[m].remaining_credits
                 = memberships[m].remaining_credits + bookings[b].credits_used

C10_CancelledAndRefundedOnce == []C10_RefusedCancelChangesNothing /\ [][C10_Step]_vars

\* a cancelled and refunded booking was cancelled again and the request refused
C10_Witness ==
  /\ resp.op = "cancel_booking" /\ resp.code = 400
  /\ resp.msg = "Booking cannot be cancelled"
  /\ \E b \in DOMAIN bookings :
       bookings[b].status = "cancelled" /\ bookings[b].credits_used > 0

\* the memberships after the refund of booking b at time now: credits_used is
\* added to the owner's active unexpired membership if it has finite credits
RefundedMemberships(b) ==
  [m \in DOMAIN memberships |->
     IF /\ bookings[b].credits_used > 0
        /\ m \in MembershipsOf(bookings[b].user_id, now)
        /\ memberships[m].remaining_credits # NULL
     THEN [memberships[m] EXCEPT !.remaining_credits = @ + bookings[b].credits_used]
     ELSE memberships[m]]

\* C11: a successful cancel_booking of a booking with credits_used > 0 adds
\* exactly credits_used to the remaining_credits of the owner's active
\* unexpired membership when it has finite credits; when the owner has no
\* active unexpired membership then, or it is unlimited, the cancellation
\* still succeeds and no membership's remaining_credits changes.
C11_RefundToCurrentMembership ==
  \A a \in Actors, b \in DOMAIN bookings, reason \in BookingReasons :
    \A r \in cancel_booking(Store, now, b, a, reason, 0) :
      LET M == MembershipsOf(bookings[b].user_id, now)
          dropped == \/ M = {}
                     \/ \A m \in M : memberships[m].remaining_credits = NULL
      IN /\ (r.code = 200 /\ bookings[b].credits_used > 0)
              => /\ r.store.memberships = RefundedMemberships(b)
                 /\ dropped => r.store.memberships = memberships
                 /\ ~dropped =>
                      \E m \in M :
                        r.store.memberships[m].remaining_credits
                          = memberships[m].remaining_credits + bookings[b].credits_used
         /\ (/\ dropped /\ owner_or_staff(bookings[b].user_id, a)
             /\ bookings[b].status = "booked"
             /\ classes[bookings[b].class_id].start_time >= now)
              => r.code = 200

\* a paid booking was cancelled after the owner's membership had expired: the
\* cancellation succeeded and the balance is still the debited one
C11_Witness ==
  /\ resp.op = "cancel_booking" /\ resp.code = 200
  /\ \E b \in DOMAIN bookings :
       /\ bookings[b].status = "cancelled" /\ bookings[b].credits_used > 0
       /\ bookings[b].cancellation_time = now
       /\ MembershipsOf(bookings[b].user_id, now) = {}
       /\ \E m \in DOMAIN memberships :
            /\ memberships[m].user_id = bookings[b].user_id
            /\ memberships[m].remaining_credits # NULL
            /\ memberships[m].remaining_credits
                 = InitialMemberships[m].remaining_credits - bookings[b].credits_used

\* C12: after a successful cancel_booking has committed, process_waitlist runs
\* for the booking's class: if the class then has free capacity and a waiting
\* entry, exactly one entry, the earliest-joined one with the smallest
\* position, becomes notified and keeps its position, the other waiting
\* entries are renumbered 1..N-1 in join order, and the promotion changes no
\* booking and no membership; if the class is still full or nobody waits, no
\* waitlist entry changes.
C12_CancelPromotesNext ==
  \A a \in Actors, b \in DOMAIN bookings, reason \in BookingReasons :
    \A r \in cancel_booking(Store, now, b, a, reason, 0) :
      r.code = 200 =>
        LET c == bookings[b].class_id
            W == WaitingOf(c)
            wl == r.store.waitlist
            active == { i \in DOMAIN r.store.bookings :
                          /\ r.store.bookings[i].class_id = c
                          /\ r.store.bookings[i].status \in {"booked", "attended"} }
        IN /\ r.store.bookings =
                [bookings EXCEPT ![b].status = "cancelled",
                                 ![b].cancellation_time = now,
                                 ![b].cancellation_reason = reason]
           /\ r.store.memberships = RefundedMemberships(b)
           /\ r.store.classes = classes
           /\ DOMAIN wl = DOMAIN waitlist
           /\ IF Cardinality(active) < classes[c].capacity /\ W # {}
              THEN \E e \in W :
                     /\ wl[e] = [waitlist[e] EXCEPT !.status = "notified",
                                                    !.notification_time = now]
                     /\ \A j \in W : /\ waitlist[e].join_time <= waitlist[j].join_time
                                     /\ waitlist[e].position <= waitlist[j].position
                     /\ \A i \in W \ {e} :
                          wl[i] = [waitlist[i] EXCEPT !.position = wl[i].position]
                     /\ { wl[i].position : i \in W \ {e} } = 1 .. (Cardinality(W) - 1)
                     /\ \A i, j \in W \ {e} :
                          wl[i].join_time < wl[j].join_time
                            => wl[i].position < wl[j].position
                     /\ \A i \in DOMAIN waitlist \ W : wl[i] = waitlist[i]
              ELSE wl = waitlist

\* the only booking of a class was cancelled while two users waited: the first
\* is notified at position 1 and the second now waits at position 1
C12_Witness ==
  /\ resp.op = "cancel_booking" /\ resp.code = 200
  /\ \E e, i \in DOMAIN waitlist :
       /\ waitlist[e].class_id = waitlist[i].class_id
       /\ waitlist[e].status = "notified" /\ waitlist[e].notification_time = now
       /\ waitlist[e].position = 1
       /\ waitlist[i].status = "waiting" /\ waitlist[i].position = 1
       /\ waitlist[e].join_time < waitlist[i].join_time
       /\ ActiveBookingsOf(waitlist[e].class_id) = {}

\* the bookings of class c in status booked
BookedOf(c) ==
  { i \in DOMAIN bookings : bookings[i].class_id = c /\ bookings[i].status = "booked" }

\* sum of credits_used over the bookings with keys in ids
RECURSIVE CreditsUsed(_)
CreditsUsed(ids) ==
  IF ids = {} THEN 0
  ELSE LET i == CHOOSE x \in ids : TRUE
       IN bookings[i].credits_used + CreditsUsed(ids \ {i})

\* C13: a successful cancel_class sets the class cancelled with the given
\* reason; every booking of the class in status booked becomes cancelled with
\* reason "Class cancelled by trainer"; and every active unexpired finite
\* membership gains exactly the credits_used of the booked bookings of its
\* owner on that class (all of them, if there are several).
C13_CancelClassCascade ==
  \A a \in Actors, c \in DOMAIN classes, reason \in ClassReasons :
    LET r == cancel_class(Store, now, c, a, reason, FALSE) IN
    r.code = 200 =>
      /\ r.store.classes = [classes EXCEPT ![c].is_cancelled = TRUE,
                                           ![c].cancellation_reason = reason]
      /\ r.store.bookings =
           [i \in DOMAIN bookings |->
              IF i \in BookedOf(c)
              THEN [bookings[i] EXCEPT !.status = "cancelled",
                                       !.cancellation_time = now,
                                       !.cancellation_reason = "Class cancelled by trainer"]
              ELSE bookings[i]]
      /\ r.store.memberships =
           [m \in DOMAIN memberships |->
              IF /\ memberships[m].remaining_credits # NULL
                 /\ m \in MembershipsOf(memberships[m].user_id, now)
              THEN [memberships[m] EXCEPT !.remaining_credits =
                      @ + CreditsUsed({ i \in BookedOf(c) :
                                          /\ bookings[i].user_id = memberships[m].user_id
                                          /\ bookings[i].credits_used > 0 })]
              ELSE memberships[m]]

\* a class with a paid booking was cancelled by its trainer: the booking is
\* cancelled with the cascade's reason and the owner holds the credits again
C13_Witness ==
  /\ resp.op = "cancel_class" /\ resp.code = 200
  /\ \E b \in DOMAIN bookings :
       /\ classes[bookings[b].class_id].is_cancelled
       /\ classes[bookings[b].class_id].cancellation_reason = "trainer ill"
       /\ bookings[b].status = "cancelled" /\ bookings[b].cancellation_time = now
       /\ bookings[b].cancellation_reason = "Class cancelled by trainer"
       /\ bookings[b].credits_used > 0
       /\ \E m \in MembershipsOf(bookings[b].user_id, now) :
            /\ memberships[m].remaining_credits # NULL
            /\ memberships[m].remaining_credits = InitialMemberships[m].remaining_credits

\* C14 (as stated): after a successful cancel_class every booking that was
\* booked or attended on the class is cancelled, i.e. a cancelled class has no
\* booking in status booked or attended, whatever was checked in before.
C14_CancelledClassHasNoActiveBooking ==
  \A c \in DOMAIN classes : classes[c].is_cancelled => ActiveBookingsOf(c) = {}

\* C14 (amended): a successful cancel_class cancels exactly the bookings of the
\* class in status booked and leaves every other booking, the attended ones
\* included, as it was; a cancelled class has no booking in status booked.
C14_CancelledClassHasNoBookedBooking ==
  /\ \A c \in DOMAIN classes : classes[c].is_cancelled => BookedOf(c) = {}
  /\ \A a \in Actors, c \in DOMAIN classes, reason \in ClassReasons :
       LET r == cancel_class(Store, now, c, a, reason, FALSE) IN
       r.code = 200 =>
         /\ DOMAIN r.store.bookings = DOMAIN bookings
         /\ \A i \in DOMAIN bookings :
              IF i \in BookedOf(c)
              THEN r.store.bookings[i].status = "cancelled"
              ELSE r.store.bookings[i] = bookings[i]

\* a class was cancelled after an attendee had been checked in: the booking is
\* still attended
C14_Witness ==
  /\ resp.op = "cancel_class" /\ resp.code = 200
  /\ \E b \in DOMAIN bookings :
       /\ classes[bookings[b].class_id].is_cancelled
       /\ bookings[b].status = "attended"

\* C15: cancel_class is refused and changes nothing when the class does not
\* exist, when the actor is a trainer who does not own it, when it is already
\* cancelled, when it has already ended, or when the reason is missing or
\* empty.
C15_RefusedCancelClassChangesNothing ==
  \A a \in Actors, c \in ClassIdInputs, reason \in ClassReasons \cup {NullStr} :
    LET r == cancel_class(Store, now, c, a, reason, FALSE)
        staff == a.role \in {"trainer", "admin"}
        refused == r.code \in {400, 403, 404} /\ r.store = Store
        foreign == a.role = "trainer" /\ classes[c].trainer_id # a.id
    IN /\ r.code # 200 => r.store = Store
       /\ ~staff => refused
       /\ c \notin DOMAIN classes => refused /\ (staff => r.code = 404)
       /\ c \in DOMAIN classes =>
            /\ foreign => r.code = 403 /\ r.store = Store
            /\ classes[c].is_cancelled => refused /\ (staff /\ ~foreign => r.code = 400)
            /\ classes[c].end_time < now => refused /\ (staff /\ ~foreign => r.code = 400)
            /\ reason \in {NullStr, ""} => refused /\ (staff /\ ~foreign => r.code = 400)

\* C15, consequence: a cancelled class stays cancelled with its reason, and a
\* booking is cancelled by the cascade, and credits are refunded by a
\* cancel_class, only in the step that cancels its class.
C15_Step ==
  /\ \A c \in DOMAIN classes :
       classes[c].is_cancelled =>
         /\ classes'[c].is_cancelled
         /\ classes'[c].cancellation_reason = classes[c].cancellation_reason
  /\ \A b \in DOMAIN bookings :
       (/\ bookings'[b].cancellation_reason = "Class cancelled by trainer"
        /\ bookings[b].cancellation_reason # "Class cancelled by trainer")
       => /\ bookings[b].status = "booked"
          /\ ~classes[bookings[b].class_id].is_cancelled
          /\ classes'[bookings[b].class_id].is_cancelled
  /\ (resp'.op = "cancel_class" /\ served' = served + 1 /\ memberships' # memberships)
       => \E c \in DOMAIN classes : ~classes[c].is_cancelled /\ classes'[c].is_cancelled

C15_ClassCancelledOnce == []C15_RefusedCancelClassChangesNothing /\ [][C15_Step]_vars

\* a class whose paid booking the cascade had cancelled was cancelled again and
\* the request was refused
C15_Witness ==
  /\ resp.op = "cancel_class" /\ resp.code = 400
  /\ resp.msg = "Class is already cancelled"
  /\ \E b \in DOMAIN bookings :
       /\ classes[bookings[b].class_id].is_cancelled
       /\ bookings[b].cancellation_reason = "Class cancelled by trainer"
       /\ bookings[b].credits_used > 0

\* C16: remove_from_waitlist is refused and changes nothing when the entry is
\* absent (404), when the actor is neither the entry's owner nor admin or
\* trainer (403), or when the entry is not in status waiting (400); on success
\* the entry becomes removed and the remaining waiting entries of the class
\* have positions 1..N-1 in join order.
C16_WaitlistRemove ==
  \A a \in Actors, e \in EntryIdInputs :
    LET r == remove_from_waitlist(Store, now, e, a, 0)
        wl == r.store.waitlist
    IN /\ r.code # 200 => r.store = Store
       /\ e \notin DOMAIN waitlist => r.code = 404
       /\ e \in DOMAIN waitlist =>
            LET mayAct == waitlist[e].user_id = a.id \/ a.role \in {"admin", "trainer"}
                W == WaitingOf(waitlist[e].class_id)
            IN /\ ~mayAct => r.code = 403
               /\ (mayAct /\ waitlist[e].status # "waiting") => r.code = 400
               /\ (mayAct /\ waitlist[e].status = "waiting") =>
                    /\ r.code = 200
                    /\ r.store.bookings = bookings
                    /\ r.store.memberships = memberships
                    /\ r.store.classes = classes
                    /\ DOMAIN wl = DOMAIN waitlist
                    /\ wl[e] = [waitlist[e] EXCEPT !.status = "removed"]
                    /\ \A i \in W \ {e} :
                         wl[i] = [waitlist[i] EXCEPT !.position = wl[i].position]
                    /\ { wl[i].position : i \in W \ {e} } = 1 .. (Cardinality(W) - 1)
                    /\ \A i, j \in W \ {e} :
                         wl[i].join_time < wl[j].join_time
                           => wl[i].position < wl[j].position
                    /\ \A i \in DOMAIN waitlist \ W : wl[i] = waitlist[i]

\* the first of two waiting users left the queue: the entry is removed and the
\* one behind it has moved up to position 1
C16_Witness ==
  /\ resp.op = "remove_from_waitlist" /\ resp.code = 200
  /\ \E e, i \in DOMAIN waitlist :
       /\ e < i /\ waitlist[e].class_id = waitlist[i].class_id
       /\ waitlist[e].status = "removed" /\ waitlist[e].position = 1
       /\ waitlist[i].status = "waiting" /\ waitlist[i].position = 1
       /\ WaitingOf(waitlist[e].class_id) = {i}

\* C17: a booking's status only ever changes from booked to cancelled,
\* attended or no-show; a booking in status cancelled, attended or no-show
\* never changes status again under any sequence of cancel_booking,
\* cancel_class, check-in and no-show requests.
C17_Step ==
  \A b \in DOMAIN bookings :
    /\ b \in DOMAIN bookings'
    /\ bookings'[b].status # bookings[b].status
         => /\ bookings[b].status = "booked"
            /\ bookings'[b].status \in {"cancelled", "attended", "no-show"}

C17_BookingStatusOneWay == [][C17_Step]_vars

\* an attendee marked as no-show was then checked in: the request was refused
\* and the booking is still a no-show
C17_Witness ==
  /\ resp.op = "check_in_attendee" /\ resp.code = 400
  /\ \E b \in DOMAIN bookings : bookings[b].status = "no-show"
  /\ \A b \in DOMAIN bookings : bookings[b].status # "booked"

\* the status changes a waitlist entry may make
WaitlistTransitions ==
  { <<"waiting", "notified">>, <<"notified", "converted">>,
    <<"waiting", "removed">>, <<"notified", "removed">> }

\* C18: every status change of a waitlist entry is one of waiting->notified,
\* notified->converted, waiting->removed or notified->removed; an entry in
\* status removed or converted never changes status again and no entry ever
\* returns to waiting.
C18_Step ==
  \A e \in DOMAIN waitlist :
    /\ e \in DOMAIN waitlist'
    /\ waitlist'[e].status # waitlist[e].status
         => <<waitlist[e].status, waitlist'[e].status>> \in WaitlistTransitions
    /\ waitlist[e].status \in {"removed", "converted"}
         => waitlist'[e].status = waitlist[e].status
    /\ waitlist[e].status # "waiting" => waitlist'[e].status # "waiting"

C18_WaitlistStatusOneWay == [][C18_Step]_vars

\* a user whose entry had been notified asked to be removed: the request was
\* refused and the entry is still notified
C18_Witness ==
  /\ resp.op = "remove_from_waitlist" /\ resp.code = 400
  /\ \E e \in DOMAIN waitlist : waitlist[e].status = "notified"
  /\ \A e \in DOMAIN waitlist : waitlist[e].status # "waiting"

\* C19 (as stated): for create_booking, cancel_booking, remove_from_waitlist
\* and cancel_class, whenever a commit of the request fails and the request
\* returns a server error, the store is left as it was before the request:
\* a cancel_booking answered 500 leaves the booking booked and refunds
\* nothing, a remove answered 500 leaves the entry waiting.
C19_Step ==
  (resp'.code = 500 /\ served' = served + 1)
    => /\ classes' = classes /\ bookings' = bookings
       /\ waitlist' = waitlist /\ memberships' = memberships

C19_ServerErrorLeavesStoreUnchanged == [][C19_Step]_vars

\* C20: when two create_booking requests of two different eligible users for a
\* class with exactly one open spot have both run their capacity count before
\* either commits, both commits succeed with a booking in status booked, and
\* the class then holds more active bookings than its capacity.
C20_LastSpotOversold ==
  \A q1, q2 \in inflight :
    LET c == q1.plan.class_id
        r1 == create_booking_commit(Store, now, q1.plan, FALSE)
        r2 == create_booking_commit(r1.store, now, q2.plan, FALSE)
    IN (/\ q1 # q2
        /\ q1.plan.kind = "booking" /\ q2.plan.kind = "booking"
        /\ q2.plan.class_id = c /\ q1.plan.user_id # q2.plan.user_id
        /\ classes[c].capacity - Cardinality(ActiveBookingsOf(c)) = 1
        /\ \A i \in DOMAIN bookings :
             bookings[i].class_id = c
               => bookings[i].user_id \notin {q1.plan.user_id, q2.plan.user_id})
       => /\ r1.code = 201 /\ r2.code = 201
          /\ r1.val # r2.val
          /\ r2.store.bookings[r1.val].status = "booked"
          /\ r2.store.bookings[r2.val].status = "booked"
          /\ r2.store.bookings[r1.val].user_id = q1.plan.user_id
          /\ r2.store.bookings[r2.val].user_id = q2.plan.user_id
          /\ booking_count(r2.store.bookings, c) = classes[c].capacity + 1

\* both requests have committed: a class holds more booked bookings than its
\* capacity
C20_Witness ==
  /\ resp.op = "create_booking" /\ resp.code = 201
  /\ resp.msg = "Booking created successfully"
  /\ \E c \in DOMAIN classes :
       /\ classes[c].capacity >= 1
       /\ Cardinality(ActiveBookingsOf(c)) > classes[c].capacity
       /\ \A i \in ActiveBookingsOf(c) : bookings[i].status = "booked"

\* C21: when two create_booking requests of one user for two different classes
\* have both read the membership's remaining_credits before either commits,
\* and the balance covers either class but not both, both commits succeed:
\* two booked bookings are left and the balance carries the debit of the last
\* commit only, so remaining_credits plus the credits_used of the user's
\* bookings is no longer what it was.
C21_LostDebit ==
  \A q1, q2 \in inflight :
    LET p1 == q1.plan
        p2 == q2.plan
        m == p1.membership
        r1 == create_booking_commit(Store, now, p1, FALSE)
        r2 == create_booking_commit(r1.store, now, p2, FALSE)
    IN (/\ p1.kind = "booking" /\ p2.kind = "booking"
        /\ p1.user_id = p2.user_id /\ p1.class_id # p2.class_id
        /\ p2.membership = m
        /\ memberships[m].remaining_credits # NULL
        /\ p1.remaining = memberships[m].remaining_credits - p1.credits_used
        /\ p2.remaining = memberships[m].remaining_credits - p2.credits_used
        /\ memberships[m].remaining_credits < p1.credits_used + p2.credits_used
        /\ \A i \in DOMAIN bookings :
             bookings[i].user_id = p1.user_id
               => bookings[i].class_id \notin {p1.class_id, p2.class_id})
       => /\ r1.code = 201 /\ r2.code = 201
          /\ r2.store.bookings[r1.val].status = "booked"
          /\ r2.store.bookings[r2.val].status = "booked"
          /\ r2.store.bookings[r1.val].credits_used = p1.credits_used
          /\ r2.store.bookings[r2.val].credits_used = p2.credits_used
          /\ r2.store.memberships[m].remaining_credits
               = memberships[m].remaining_credits - p2.credits_used
          /\ r2.store.memberships[m].remaining_credits
               + p1.credits_used + p2.credits_used
               > memberships[m].remaining_credits

\* both requests have committed: a member holds two booked bookings whose
\* credits_used, added to the balance, exceed the credits the membership had
C21_Witness ==
  /\ resp.op = "create_booking" /\ resp.code = 201 /\ inflight = {}
  /\ \E m \in DOMAIN memberships, i, j \in DOMAIN bookings :
       /\ i # j /\ bookings[i].class_id # bookings[j].class_id
       /\ bookings[i].user_id = memberships[m].user_id
       /\ bookings[j].user_id = memberships[m].user_id
       /\ bookings[i].status = "booked" /\ bookings[j].status = "booked"
       /\ memberships[m].remaining_credits # NULL
       /\ Len(bookings) = 2
       /\ memberships[m].remaining_credits
            + bookings[i].credits_used + bookings[j].credits_used
            > InitialMemberships[m].remaining_credits

\* two waiting entries of one class hold the same position
DuplicatePosition(wl, i, j) ==
  /\ i # j /\ wl[i].class_id = wl[j].class_id
  /\ wl[i].status = "waiting" /\ wl[j].status = "waiting"
  /\ wl[i].position = wl[j].position

\* C22: when two create_booking requests of two different users for a full
\* class have both read the largest waiting position before either commits,
\* both entries are stored waiting with the same position.
C22_SamePositionStored ==
  \A q1, q2 \in inflight :
    LET p1 == q1.plan
        p2 == q2.plan
        r1 == create_booking_commit(Store, now, p1, FALSE)
        r2 == create_booking_commit(r1.store, now, p2, FALSE)
        e1 == Len(waitlist) + 1
        e2 == Len(waitlist) + 2
    IN (/\ p1.kind = "waitlist" /\ p2.kind = "waitlist"
        /\ p1.class_id = p2.class_id /\ p1.user_id # p2.user_id
        /\ p1.position = p2.position
        /\ \A i \in DOMAIN waitlist :
             waitlist[i].class_id = p1.class_id
               => waitlist[i].user_id \notin {p1.user_id, p2.user_id})
       => /\ r1.code = 201 /\ r2.code = 201
          /\ Len(r2.store.waitlist) = e2
          /\ r2.store.waitlist[e1].user_id = p1.user_id
          /\ r2.store.waitlist[e2].user_id = p2.user_id
          /\ DuplicatePosition(r2.store.waitlist, e1, e2)
          /\ r2.store.waitlist[e1].position = p1.position

\* C22, continued: the duplicate stays as it is until a successful remove or
\* a successful cancellation (promotion) on that class has run reorder.
C22_Step ==
  \A i, j \in DOMAIN waitlist :
    DuplicatePosition(waitlist, i, j)
      => \/ DuplicatePosition(waitlist', i, j)
         \/ /\ resp'.op \in {"remove_from_waitlist", "cancel_booking"}
            /\ resp'.code = 200 /\ served' = served + 1
            /\ \A k, l \in DOMAIN waitlist' :
                 waitlist'[k].class_id = waitlist[i].class_id
                   => ~DuplicatePosition(waitlist', k, l)

C22_DuplicatePositionUntilReorder == []C22_SamePositionStored /\ [][C22_Step]_vars

\* both joins have committed: two users wait for the same class at the same
\* position
C22_Witness ==
  /\ resp.op = "create_booking" /\ resp.msg = "Added to waitlist" /\ inflight = {}
  /\ \E i, j \in DOMAIN waitlist :
       DuplicatePosition(waitlist, i, j) /\ waitlist[i].user_id # waitlist[j].user_id

\* C23 (as stated): under any interleaving of two cancellations of the same
\* booked booking (two cancel_booking requests, or a cancel_booking and a
\* cancel_class of its class) the booking's credits_used is added to a
\* membership at most once: a cancellation adds credits to a balance only in
\* the step that turns a booked booking of its owner into a cancelled one.
C23_Step ==
  \A m \in DOMAIN memberships :
    (/\ resp'.op \in {"cancel_booking", "cancel_class"}
     /\ served' = served + 1 \/ inflight' # inflight
     /\ memberships[m].remaining_credits # NULL
     /\ memberships'[m].remaining_credits > memberships[m].remaining_credits)
    => \E b \in DOMAIN bookings :
         /\ bookings[b].user_id = memberships[m].user_id
         /\ bookings[b].status = "booked" /\ bookings'[b].status = "cancelled"

C23_RefundedAtMostOnce == [][C23_Step]_vars

\* C24 (as stated): under any interleaving of a create_booking and a
\* cancel_class on the same class, once both requests have completed no
\* booking of the cancelled class is in status booked.
C24_NoBookedBookingOnCancelledClass ==
  inflight = {} =>
    \A b \in DOMAIN bookings :
      classes[bookings[b].class_id].is_cancelled => bookings[b].status # "booked"

\* the bookings of user u that hold credits: booked, attended or no-show
HoldingBookingsOf(u) ==
  { i \in DOMAIN bookings :
      bookings[i].user_id = u /\ bookings[i].status \in {"booked", "attended", "no-show"} }

\* C25: with requests served one at a time, for a user with exactly one
\* membership, which has finite credits and is active and unexpired,
\* remaining_credits plus the credits_used of the user's bookings in status
\* booked, attended or no-show is in every reachable state what it was at the
\* start, under any sequence of create, cancel, cancel-class, check-in and
\* no-show requests.
C25_CreditsConserved ==
  \A m \in DOMAIN memberships :
    (/\ memberships[m].remaining_credits # NULL
     /\ MembershipsOf(memberships[m].user_id, now) = {m}
     /\ \A k \in DOMAIN memberships :
          memberships[k].user_id = memberships[m].user_id => k = m)
    => memberships[m].remaining_credits
         + CreditsUsed(HoldingBookingsOf(memberships[m].user_id))
         = InitialMemberships[m].remaining_credits

\* a member with finite credits has one booking cancelled and refunded and
\* another one marked as no-show whose credits stay spent
C25_Witness ==
  \E m \in DOMAIN memberships, i, j \in DOMAIN bookings :
    /\ memberships[m].remaining_credits # NULL
    /\ MembershipsOf(memberships[m].user_id, now) = {m}
    /\ bookings[i].user_id = memberships[m].user_id
    /\ bookings[j].user_id = memberships[m].user_id
    /\ bookings[i].status = "cancelled" /\ bookings[i].credits_used > 0
    /\ bookings[j].status \in {"attended", "no-show"} /\ bookings[j].credits_used > 0
    /\ memberships[m].remaining_credits
         = InitialMemberships[m].remaining_credits - bookings[j].credits_used

\* C26 (as stated): the credits added to a membership when a booking is
\* cancelled never exceed the credits deducted from a membership when it was
\* created, also when the owner's membership is edited in between.  Stated of
\* the runs whose requests are a booking, a membership edit and the
\* cancellation of the booking: what was deducted is credits_used if the
\* owner's membership had finite credits at the start and nothing if it was
\* unlimited.
C26_Step ==
  (/\ served = 2 /\ served' = 3
   /\ resp.op = "update_membership" /\ resp.code = 200
   /\ Len(bookings) = 1 /\ bookings[1].status = "booked"
   /\ resp'.op \in {"cancel_booking", "cancel_class"} /\ resp'.code = 200
   /\ bookings'[1].status = "cancelled")
  => \A m \in DOMAIN memberships :
       (/\ memberships[m].user_id = bookings[1].user_id
        /\ memberships[m].remaining_credits # NULL)
       => memberships'[m].remaining_credits - memberships[m].remaining_credits
            <= IF InitialMemberships[m].remaining_credits = NULL
               THEN 0 ELSE bookings[1].credits_used

C26_RefundNeverExceedsDebit == [][C26_Step]_vars

\* C27 (as stated): with requests served one at a time, no user has both a
\* booking in status booked or attended and a waitlist entry in status
\* waiting for the same class.
C27_NoBookingBesideWaitingEntry ==
  \A i \in DOMAIN bookings, j \in DOMAIN waitlist :
    ~ (/\ bookings[i].status \in {"booked", "attended"}
       /\ waitlist[j].status = "waiting"
       /\ waitlist[j].user_id = bookings[i].user_id
       /\ waitlist[j].class_id = bookings[i].class_id)

\* C28 (as stated): cancel_class leaves every waitlist entry unchanged
\* (status, position, notification time), and no entry of a cancelled class
\* is notified afterwards.
C28_Step ==
  /\ (/\ served' = served + 1
      /\ resp'.op = "cancel_class"
      /\ resp'.code = 200) => waitlist' = waitlist
  /\ \A j \in DOMAIN waitlist :
       (/\ classes[waitlist[j].class_id].is_cancelled
        /\ waitlist[j].status # "notified")
       => waitlist'[j].status # "notified"

C28_CancelClassLeavesWaitlist == [][C28_Step]_vars

\* C30 (as stated): once a waitlist entry is notified it stays notified in
\* every later state: no operation converts, expires or removes it, and no
\* entry is ever in status converted.
C30_NeverConverted ==
  \A j \in DOMAIN waitlist : waitlist[j].status # "converted"

C30_Step ==
  \A j \in DOMAIN waitlist :
    waitlist[j].status = "notified" => waitlist'[j].status = "notified"

C30_NotifiedStaysNotified == []C30_NeverConverted /\ [][C30_Step]_vars

\* C29: reorder_waitlist on a class, started from any waitlist table (gaps
\* and duplicate positions included), gives the class's waiting entries the
\* positions exactly 1..N in ascending join_time order, changes no status,
\* changes no position of a non-waiting entry or of another class's entry,
\* and a second reorder changes nothing.
C29_ReorderNormalises ==
  \A c \in ClassIdInputs :
    LET r == reorder_waitlist(waitlist, c)
        W == waiting_entries(waitlist, c)
    IN /\ DOMAIN r = DOMAIN waitlist
       /\ { r[i].position : i \in W } = 1 .. Cardinality(W)
       /\ \A i, j \in W :
            waitlist[i].join_time < waitlist[j].join_time
              => r[i].position < r[j].position
       /\ \A i \in DOMAIN waitlist :
            /\ r[i] = [waitlist[i] EXCEPT !.position = r[i].position]
            /\ i \notin W => r[i] = waitlist[i]
       /\ reorder_waitlist(r, c) = r

\* two waiting entries of c1 stored with the same position 2 (a duplicate
\* and a gap) after a reorder of the other class, the later key having joined first:
\* the reorder gives them positions 2 and 1
C29_Witness ==
  \E i, j \in waiting_entries(waitlist, "c1") :
    /\ i < j
    /\ waitlist[i].position = 2 /\ waitlist[j].position = 2
    /\ waitlist[i].join_time > waitlist[j].join_time
    /\ resp.op = "reorder_waitlist" /\ resp.msg = "c2"
    /\ LET r == reorder_waitlist(waitlist, "c1")
       IN r[i].position = 2 /\ r[j].position = 1
====
